---- MODULE Spec2Model ----
(***************************************************************************)
(* Upload lifecycle (UploadController.uploadSingle) and template store     *)
(* operations (TemplateService) of the digitalSign image service.          *)
(*                                                                         *)
(* Spec          : concurrent uploadSingle requests against a seeded store *)
(* SpecTemplates : template operations, one call at a time                 *)
(* SpecSetDefault: concurrent setDefaultTemplate calls                     *)
(* SpecPipeline  : ImageProcessingService.processImage on its own          *)
(* SpecLinked    : one upload request next to template update and delete   *)
(* SpecRoutes    : template create and update requests through validate    *)
(* SpecStages    : applyBox and applyWatermark on their own                *)
(* SpecUploadRoute: one upload request through multer and the validators   *)
(* SpecOneCall   : concurrent clients, one setDefault or toggle call each  *)
(***************************************************************************)
EXTENDS Integers, Sequences, FiniteSets, TLC

VARIABLES uploads, files, rq, templates, created, tc, pl

vars == <<uploads, files, rq, templates, created, tc, pl>>

(* ---------------- bounds ---------------- *)
NumRequests == 2
NumCallers == 2
NumSeeded == 2
NumDefaults == 2
MaxTemplates == 2
MaxDim == 2

Requests == 1..NumRequests
Callers == 1..NumCallers

(* ---------------- nullable columns ---------------- *)
NULL == <<>>
Some(v) == <<v>>

(* prisma update: the columns named in data are overwritten, the rest kept *)
Patch(rec, data) == [f \in DOMAIN rec |-> IF f \in DOMAIN data THEN data[f] ELSE rec[f]]

(* every prisma call either succeeds or rejects *)
StoreOutcomes == {"ok", "error"}

(* ---------------- template table ---------------- *)
(* the head of the list the seed script upserts *)
SeedTemplates ==
  << [name |-> "Social Media Square", isDefault |-> TRUE,  isActive |-> TRUE],
     [name |-> "YouTube Thumbnail",   isDefault |-> FALSE, isActive |-> TRUE],
     [name |-> "Profile Picture",     isDefault |-> FALSE, isActive |-> TRUE],
     [name |-> "Web Optimized",       isDefault |-> FALSE, isActive |-> TRUE] >>

(* the templates table after the seed script *)
Seeded == [t \in 1..NumSeeded |-> SeedTemplates[t]]

(* templateId of a request: absent, a seeded template, an id of no template *)
TemplateIdInputs == {NULL, Some(1), Some(NumSeeded + 1)}

TemplateExists(t) == t \in DOMAIN templates

(* ---------------- upload records ---------------- *)
StagingPath(r) == <<"uploads", r>>

(* variant: every request writes its processed file under one name *)
ProcessedPathShared(id) == <<"processed", 0>>

ProcessedPath(id) == <<"processed", id>>

MimeTypes == {"image/jpeg", "video/mp4"}
IsImage(m) == m = "image/jpeg"
IsVideo(m) == m = "video/mp4"

(* metadata sharp reports for an input file and its processed output *)
ImageMetadata ==
  { [originalWidth |-> 2, originalHeight |-> 1, processedWidth |-> 1, processedHeight |-> 1] }

CreateData(tid) ==
  [ status |-> "pending", templateId |-> tid,
    processedPath |-> NULL,
    originalWidth |-> NULL, originalHeight |-> NULL,
    processedWidth |-> NULL, processedHeight |-> NULL,
    cloudinaryId |-> NULL, cloudinaryUrl |-> NULL,
    errorMessage |-> NULL ]

(* variant: the status column is left as it was *)
ProcessingDataSkipped == [status |-> "pending"]

ProcessingData == [status |-> "processing"]

(* variant: the processed height is not written *)
ProcessedInfoDataPartial(path, m) ==
  [ processedPath |-> Some(path),
    originalWidth |-> Some(m.originalWidth), originalHeight |-> Some(m.originalHeight),
    processedWidth |-> Some(m.processedWidth) ]

ProcessedInfoData(path, m) ==
  [ processedPath |-> Some(path),
    originalWidth |-> Some(m.originalWidth), originalHeight |-> Some(m.originalHeight),
    processedWidth |-> Some(m.processedWidth), processedHeight |-> Some(m.processedHeight) ]

(* variant: the storage columns are written without the status *)
CompletedDataNoStatus(d) ==
  [ cloudinaryId |-> Some(d.public_id), cloudinaryUrl |-> Some(d.url) ]

CompletedData(d) ==
  [ cloudinaryId |-> Some(d.public_id), cloudinaryUrl |-> Some(d.url), status |-> "completed" ]

(* variant: the error detail is not written *)
FailedDataNoMessage(msg) == [status |-> "failed"]

(* variant: the record is put back to pending for a retry *)
FailedDataRetry(msg) == [status |-> "pending", errorMessage |-> msg]

FailedData(msg) == [status |-> "failed", errorMessage |-> msg]

(* variant: the file is left in place *)
deleteFileKeeps(fs, p) == fs

(* FileUtils.deleteFile: unlink the file when it exists *)
deleteFile(fs, p) == IF p \in fs THEN fs \ {p} ELSE fs

IdleRequest ==
  [ pc |-> "idle", file |-> FALSE, mimetype |-> "image/jpeg", templateId |-> NULL,
    uploadRecord |-> FALSE, template |-> NULL, processedImagePath |-> NULL,
    imageMetadata |-> NULL, cloudinaryResult |-> NULL, error |-> NULL, response |-> 0 ]

Throw(r, msg) == [rq[r] EXCEPT !.pc = "catch", !.error = Some(msg)]

(* the handler returns after sending the response: its locals are gone *)
Finish(r, code) == [IdleRequest EXCEPT !.pc = "done", !.file = rq[r].file, !.response = code]

(* ------------- uploadSingle, one action per await ------------- *)

(* multer stores the file part (if any) and the handler is entered *)
Request(r) ==
  /\ rq[r].pc = "idle"
  /\ \/ /\ rq' = [rq EXCEPT ![r].pc = "create"]
        /\ UNCHANGED files
     \/ \E m \in MimeTypes, tid \in TemplateIdInputs :
          /\ rq' = [rq EXCEPT ![r].pc = "create", ![r].file = TRUE,
                              ![r].mimetype = m, ![r].templateId = tid]
          /\ files' = files \cup {StagingPath(r)}
  /\ UNCHANGED <<uploads, templates, created, tc, pl>>

(* no file: 400; otherwise prisma.upload.create with status pending *)
CreateRecord(r) ==
  /\ rq[r].pc = "create"
  /\ \/ /\ ~rq[r].file
        /\ rq' = [rq EXCEPT ![r] = Finish(r, 400)]
        /\ UNCHANGED uploads
     \/ /\ rq[r].file
        /\ \E o \in StoreOutcomes :
             IF o = "ok" /\ (rq[r].templateId = NULL \/ TemplateExists(rq[r].templateId[1]))
             THEN /\ uploads' = uploads @@ (r :> CreateData(rq[r].templateId))
                  /\ rq' = [rq EXCEPT ![r].uploadRecord = TRUE,
                              ![r].pc = IF rq[r].templateId # NULL THEN "getTemplate" ELSE "upload"]
             ELSE /\ rq' = [rq EXCEPT ![r] = Throw(r, "store error")]
                  /\ UNCHANGED uploads
  /\ UNCHANGED <<files, templates, created, tc, pl>>

(* TemplateService.getTemplateById for the request's templateId *)
GetTemplate(r) ==
  /\ rq[r].pc = "getTemplate"
  /\ \E o \in StoreOutcomes :
       IF o = "ok" /\ TemplateExists(rq[r].templateId[1])
       THEN rq' = [rq EXCEPT ![r].template = rq[r].templateId,
                     ![r].pc = IF IsImage(rq[r].mimetype) THEN "setProcessing" ELSE "upload"]
       ELSE rq' = [rq EXCEPT ![r] = Throw(r, "Template not found")]
  /\ UNCHANGED <<uploads, files, templates, created, tc, pl>>

(* variant: a rejected status update is ignored and processing goes on *)
SetProcessingIgnoresError(r) ==
  /\ rq[r].pc = "setProcessing"
  /\ \E o \in StoreOutcomes :
       /\ uploads' = IF o = "ok" THEN [uploads EXCEPT ![r] = Patch(@, ProcessingData)] ELSE uploads
       /\ rq' = [rq EXCEPT ![r].processedImagePath = Some(ProcessedPath(r)),
                           ![r].pc = "process"]
  /\ UNCHANGED <<files, templates, created, tc, pl>>

(* the processed path is chosen and the record is moved to processing *)
SetProcessing(r) ==
  /\ rq[r].pc = "setProcessing"
  /\ \E o \in StoreOutcomes :
       IF o = "ok"
       THEN /\ uploads' = [uploads EXCEPT ![r] = Patch(@, ProcessingData)]
            /\ rq' = [rq EXCEPT ![r].processedImagePath = Some(ProcessedPath(r)),
                                ![r].pc = "process"]
       ELSE /\ rq' = [rq EXCEPT ![r] = [Throw(r, "store error") EXCEPT
                                          !.processedImagePath = Some(ProcessedPath(r))]]
            /\ UNCHANGED uploads
  /\ UNCHANGED <<files, templates, created, tc, pl>>

(* ImageProcessingService.processImage: a result, never an exception *)
ProcessImage(r) ==
  /\ rq[r].pc = "process"
  /\ \/ \E m \in ImageMetadata :
          /\ files' = files \cup {rq[r].processedImagePath[1]}
          /\ rq' = [rq EXCEPT ![r].imageMetadata = Some(m), ![r].pc = "saveInfo"]
     \/ \E wrote \in BOOLEAN :
          /\ files' = IF wrote THEN files \cup {rq[r].processedImagePath[1]} ELSE files
          /\ rq' = [rq EXCEPT ![r] = Throw(r, "Image processing failed")]
  /\ UNCHANGED <<uploads, templates, created, tc, pl>>

(* the processed path and the dimensions are written to the record *)
SaveProcessedInfo(r) ==
  /\ rq[r].pc = "saveInfo"
  /\ \E o \in StoreOutcomes :
       IF o = "ok"
       THEN /\ uploads' = [uploads EXCEPT ![r] =
                 Patch(@, ProcessedInfoData(rq[r].processedImagePath[1], rq[r].imageMetadata[1]))]
            /\ rq' = [rq EXCEPT ![r].pc = "upload"]
       ELSE /\ rq' = [rq EXCEPT ![r] = Throw(r, "store error")]
            /\ UNCHANGED uploads
  /\ UNCHANGED <<files, templates, created, tc, pl>>

(* variant: the processed path is handed over whether or not it was produced *)
CloudinaryUploadProcessedPath(r) ==
  /\ rq[r].pc = "upload"
  /\ \E ok \in BOOLEAN :
       rq' = [rq EXCEPT ![r].pc = "cleanup",
                ![r].cloudinaryResult =
                   Some([success |-> ok, public_id |-> r, url |-> r,
                         video |-> IsVideo(rq[r].mimetype),
                         path |-> ProcessedPath(r)])]
  /\ UNCHANGED <<uploads, files, templates, created, tc, pl>>

(* CloudinaryService.uploadVideo / uploadImage: a result, never an exception *)
CloudinaryUpload(r) ==
  /\ rq[r].pc = "upload"
  /\ \E ok \in BOOLEAN :
       rq' = [rq EXCEPT ![r].pc = "cleanup",
                ![r].cloudinaryResult =
                   Some([success |-> ok, public_id |-> r, url |-> r,
                         video |-> IsVideo(rq[r].mimetype),
                         path |-> IF rq[r].processedImagePath # NULL
                                  THEN rq[r].processedImagePath[1]
                                  ELSE StagingPath(r)])]
  /\ UNCHANGED <<uploads, files, templates, created, tc, pl>>

(* local files are removed, then a failed storage result is thrown *)
Cleanup(r) ==
  /\ rq[r].pc = "cleanup"
  /\ files' = IF rq[r].processedImagePath # NULL
              THEN deleteFile(deleteFile(files, StagingPath(r)), rq[r].processedImagePath[1])
              ELSE deleteFile(files, StagingPath(r))
  /\ rq' = IF rq[r].cloudinaryResult[1].success
           THEN [rq EXCEPT ![r].pc = "finalUpdate"]
           ELSE [rq EXCEPT ![r] = Throw(r, "Cloudinary upload failed")]
  /\ UNCHANGED <<uploads, templates, created, tc, pl>>

(* storage identifier, URL and status completed in one update *)
FinalUpdate(r) ==
  /\ rq[r].pc = "finalUpdate"
  /\ \E o \in StoreOutcomes :
       IF o = "ok"
       THEN /\ uploads' = [uploads EXCEPT ![r] = Patch(@, CompletedData(rq[r].cloudinaryResult[1]))]
            /\ rq' = [rq EXCEPT ![r].pc = "respond"]
       ELSE /\ rq' = [rq EXCEPT ![r] = Throw(r, "store error")]
            /\ UNCHANGED uploads
  /\ UNCHANGED <<files, templates, created, tc, pl>>

(* variant: assembling the response throws into the catch block *)
RespondThrows(r) ==
  /\ rq[r].pc = "respond"
  /\ rq' = [rq EXCEPT ![r] = Throw(r, "response error")]
  /\ UNCHANGED <<uploads, files, templates, created, tc, pl>>

(* the response body is assembled and sent with 201 *)
Respond(r) ==
  /\ rq[r].pc = "respond"
  /\ rq' = [rq EXCEPT ![r] = Finish(r, 201)]
  /\ UNCHANGED <<uploads, files, templates, created, tc, pl>>

(* catch: the record, if created, is marked failed; a rejection is only logged *)
CatchUpdate(r) ==
  /\ rq[r].pc = "catch"
  /\ \/ /\ rq[r].uploadRecord
        /\ \E o \in StoreOutcomes :
             IF o = "ok"
             THEN uploads' = [uploads EXCEPT ![r] = Patch(@, FailedData(rq[r].error))]
             ELSE UNCHANGED uploads
     \/ /\ ~rq[r].uploadRecord
        /\ UNCHANGED uploads
  /\ rq' = [rq EXCEPT ![r].pc = "catchCleanup"]
  /\ UNCHANGED <<files, templates, created, tc, pl>>

(* catch: the staging file is removed and 500 is sent *)
CatchCleanup(r) ==
  /\ rq[r].pc = "catchCleanup"
  /\ files' = IF rq[r].file THEN deleteFile(files, StagingPath(r)) ELSE files
  /\ rq' = [rq EXCEPT ![r] = Finish(r, 500)]
  /\ UNCHANGED <<uploads, templates, created, tc, pl>>

IdleCaller == [pc |-> "idle", op |-> "none", id |-> 0, name |-> "", cur |-> FALSE, i |-> 0, result |-> "none"]

(* =================== ImageProcessingService.processImage =================== *)

(* an input file: not decodable, or an image of some size *)
Images ==
  {[decodable |-> FALSE, width |-> 0, height |-> 0]}
    \cup [decodable : {TRUE}, width : 1..MaxDim, height : 1..MaxDim]

Fits == {"cover", "contain", "fill", "inside", "outside"}

(* the geometry columns of a template row: width and height are NOT NULL, *)
(* the crop columns are nullable                                          *)
PipelineTemplates ==
  [ width : 1..MaxDim, height : 1..MaxDim, fit : Fits,
    cropX : {NULL, Some(0), Some(1)}, cropY : {NULL, Some(0), Some(1)},
    cropWidth : {NULL} \cup {Some(n) : n \in 1..MaxDim},
    cropHeight : {NULL} \cup {Some(n) : n \in 1..MaxDim} ]

(* the stages of the documented pipeline, in order *)
PipelineStages == <<"Geometry", "Tone", "Frame", "Watermark", "Encode">>

(* JavaScript truthiness of a nullable integer column *)
Truthy(v) == v # NULL /\ v[1] # 0

(* applyDimensions: the test that guards image.extract *)
HasCrop(t) ==
  t.cropX # NULL /\ t.cropY # NULL /\ Truthy(t.cropWidth) /\ Truthy(t.cropHeight)

(* sharp rejects an extract region that leaves the image *)
ExtractFits(t, m) ==
  t.cropX[1] + t.cropWidth[1] <= m.width /\ t.cropY[1] + t.cropHeight[1] <= m.height

(* the size the resize works on: the crop region, or the whole image *)
ResizeInput(t, m) ==
  IF HasCrop(t) THEN [width |-> t.cropWidth[1], height |-> t.cropHeight[1]]
                ELSE [width |-> m.width, height |-> m.height]

(* a / b rounded to the nearest integer, at least one pixel *)
RoundDiv(a, b) == LET q == (2 * a + b) \div (2 * b) IN IF q < 1 THEN 1 ELSE q

(* variant: the mapping sends cover to inside *)
getSharpFitCoverInside(templateFit) ==
  IF templateFit = "cover" THEN "inside" ELSE IF templateFit \in Fits THEN templateFit ELSE "cover"

(* getSharpFit, then the output size of sharp's resize for that fit *)
getSharpFit(templateFit) == IF templateFit \in Fits THEN templateFit ELSE "cover"

ResizeDims(in, t) ==
  LET fit == getSharpFit(t.fit)
      byWidth == [width |-> t.width, height |-> RoundDiv(in.height * t.width, in.width)]
      byHeight == [width |-> RoundDiv(in.width * t.height, in.height), height |-> t.height]
  IN CASE fit \in {"cover", "contain", "fill"} -> [width |-> t.width, height |-> t.height]
       [] fit = "inside" ->
            IF t.width * in.height <= t.height * in.width THEN byWidth ELSE byHeight
       [] fit = "outside" ->
            IF t.width * in.height >= t.height * in.width THEN byWidth ELSE byHeight

IdlePipeline ==
  [ pc |-> "idle", image |-> NULL, template |-> NULL, metadata |-> NULL,
    stages |-> <<>>, wrote |-> FALSE, error |-> NULL, result |-> NULL, thrown |-> FALSE ]

(* an exception inside the try block *)
PipelineThrow(msg) == [pl EXCEPT !.pc = "catch", !.error = Some(msg)]

(* processImage(inputPath, template, outputPath) is called *)
PipelineCall ==
  /\ pl.pc = "idle"
  /\ \E img \in Images, t \in PipelineTemplates :
       pl' = [IdlePipeline EXCEPT !.pc = "metadata", !.image = Some(img), !.template = Some(t)]
  /\ UNCHANGED <<uploads, files, rq, templates, created, tc>>

(* sharp(inputPath).metadata() *)
PipelineMetadata ==
  /\ pl.pc = "metadata"
  /\ pl' = IF pl.image[1].decodable
           THEN [pl EXCEPT !.pc = "geometry",
                           !.metadata = Some([width |-> pl.image[1].width,
                                              height |-> pl.image[1].height])]
           ELSE PipelineThrow("unsupported image format")
  /\ UNCHANGED <<uploads, files, rq, templates, created, tc>>

(* applyDimensions: extract and resize are queued on the sharp object; the *)
(* calls for the later stages are commented out, so toFile comes next      *)
PipelineGeometry ==
  /\ pl.pc = "geometry"
  /\ pl' = [pl EXCEPT !.pc = "toFile", !.stages = Append(@, "Geometry")]
  /\ UNCHANGED <<uploads, files, rq, templates, created, tc>>

(* image.toFile(outputPath): the queued operations run and the file is written *)
PipelineToFile ==
  /\ pl.pc = "toFile"
  /\ LET t == pl.template[1]
         m == pl.metadata[1]
     IN IF HasCrop(t) /\ ~ExtractFits(t, m)
        THEN pl' = PipelineThrow("extract_area: bad extract area")
        ELSE \/ pl' = [pl EXCEPT !.pc = "outMetadata", !.wrote = TRUE]
             \/ pl' = PipelineThrow("unable to write output file")
  /\ UNCHANGED <<uploads, files, rq, templates, created, tc>>

(* the written file is read back and the result is returned *)
PipelineReturn ==
  /\ pl.pc = "outMetadata"
  /\ \/ LET out == ResizeDims(ResizeInput(pl.template[1], pl.metadata[1]), pl.template[1])
        IN pl' = [pl EXCEPT !.pc = "returned",
                     !.result = Some([success |-> TRUE,
                                      originalWidth |-> pl.metadata[1].width,
                                      originalHeight |-> pl.metadata[1].height,
                                      processedWidth |-> out.width,
                                      processedHeight |-> out.height])]
     \/ pl' = PipelineThrow("unable to read output file")
  /\ UNCHANGED <<uploads, files, rq, templates, created, tc>>

(* variant: the exception leaves processImage *)
PipelineCatchRethrows ==
  /\ pl.pc = "catch"
  /\ pl' = [pl EXCEPT !.pc = "returned", !.thrown = TRUE]
  /\ UNCHANGED <<uploads, files, rq, templates, created, tc>>

(* catch: the exception becomes a failure result *)
PipelineCatch ==
  /\ pl.pc = "catch"
  /\ pl' = [pl EXCEPT !.pc = "returned",
                      !.result = Some([success |-> FALSE, originalWidth |-> 0, originalHeight |-> 0,
                                       processedWidth |-> 0, processedHeight |-> 0])]
  /\ UNCHANGED <<uploads, files, rq, templates, created, tc>>

InitPipeline ==
  /\ uploads = <<>>
  /\ files = {}
  /\ rq = [r \in Requests |-> IdleRequest]
  /\ templates = <<>>
  /\ created = 0
  /\ tc = [c \in Callers |-> IdleCaller]
  /\ pl = IdlePipeline

NextPipeline ==
  \/ PipelineCall
  \/ PipelineMetadata
  \/ PipelineGeometry
  \/ PipelineToFile
  \/ PipelineReturn
  \/ PipelineCatch

SpecPipeline == InitPipeline /\ [][NextPipeline]_vars

(* ============ ImageProcessingService.applyBox and applyWatermark ============ *)

(* the sharp object a stage is given: metadata() reports its size, or fails *)
StageImages == [readable : BOOLEAN, width : {1, 500}, height : {1, 500}]

(* box fields of a template, in the ranges of templateCreateSchema *)
BoxConfigs ==
  [ boxEnabled : BOOLEAN, boxPadding : {0, 20, 200}, boxBorderWidth : {0, 50},
    boxShadowEnabled : BOOLEAN, boxShadowBlur : {0, 10, 100},
    boxShadowOffsetX : {-100, 5, 100}, boxShadowOffsetY : {-5, 5} ]

(* watermark fields of a template; the opacity is counted in tenths *)
WatermarkTexts == {NULL, Some(""), Some("Sample"), Some("A & B")}

WatermarkConfigs ==
  [ watermarkEnabled : BOOLEAN, watermarkText : WatermarkTexts,
    watermarkOpacity : {NULL, Some(0), Some(3), Some(10)},
    watermarkSize : {NULL, Some(8)},
    watermarkPosition : {NULL, Some("center")} ]

Abs(n) == IF n < 0 THEN -n ELSE n
Max(a, b) == IF a >= b THEN a ELSE b

(* the text is copied into the SVG as it is: markup characters break the XML *)
XmlWellFormed(text) == text # "A & B"

(* variant: the blur radius is left out of the shadow margin *)
ShadowOffsetNoBlur(t) ==
  IF t.boxShadowEnabled
  THEN Max(Abs(t.boxShadowOffsetX), Abs(t.boxShadowOffsetY))
  ELSE 0

(* applyBox: shadowOffset *)
ShadowOffset(t) ==
  IF t.boxShadowEnabled
  THEN Max(Abs(t.boxShadowOffsetX), Abs(t.boxShadowOffsetY)) + t.boxShadowBlur
  ELSE 0

(* applyBox: the canvas and the place of the image on it *)
BoxLayout(width, height, t) ==
  LET totalPadding == t.boxPadding * 2
      totalBorder == t.boxBorderWidth * 2
      shadowOffset == ShadowOffset(t)
      boxWidth == width + totalPadding + totalBorder
      boxHeight == height + totalPadding + totalBorder
  IN [ kind |-> "box",
       canvasWidth |-> boxWidth + shadowOffset * 2,
       canvasHeight |-> boxHeight + shadowOffset * 2,
       imageLeft |-> shadowOffset + t.boxBorderWidth + t.boxPadding,
       imageTop |-> shadowOffset + t.boxBorderWidth + t.boxPadding ]

(* applyWatermark: opacity = watermarkOpacity || 0.5, in tenths *)
WatermarkOpacity(t) == IF Truthy(t.watermarkOpacity) THEN t.watermarkOpacity[1] ELSE 5

(* applyWatermark: fontSize = watermarkSize || max(width, height) * 0.05, *)
(* counted in twentieths of a pixel                                       *)
WatermarkFontSize(width, height, t) ==
  IF Truthy(t.watermarkSize) THEN t.watermarkSize[1] * 20 ELSE Max(width, height)

(* applyWatermark: the SVG overlay queued on the image by composite *)
WatermarkOverlay(width, height, t) ==
  [ kind |-> "watermark", width |-> width, height |-> height,
    text |-> t.watermarkText[1],
    fillOpacity |-> WatermarkOpacity(t),
    fontSize |-> WatermarkFontSize(width, height, t),
    position |-> IF t.watermarkPosition = NULL THEN "bottom-right" ELSE t.watermarkPosition[1] ]

IdleStage ==
  [ pc |-> "idle", stage |-> "none", image |-> NULL, template |-> NULL,
    out |-> NULL, error |-> NULL ]

(* a stage returns: the image it was given (NULL decoration) or a decorated one *)
StageReturn(decoration) == [pl EXCEPT !.pc = "returned", !.out = decoration]

(* applyBox(image, template) or applyWatermark(image, template) is called *)
StageCall ==
  /\ pl.pc = "idle"
  /\ \E img \in StageImages :
       \/ \E t \in BoxConfigs :
            pl' = [IdleStage EXCEPT !.pc = "entered", !.stage = "box",
                                    !.image = Some(img), !.template = Some(t)]
       \/ \E t \in WatermarkConfigs :
            pl' = [IdleStage EXCEPT !.pc = "entered", !.stage = "watermark",
                                    !.image = Some(img), !.template = Some(t)]
  /\ UNCHANGED <<uploads, files, rq, templates, created, tc>>

(* applyBox: a disabled box returns the image; otherwise image.metadata() *)
ApplyBoxMetadata ==
  /\ pl.pc = "entered" /\ pl.stage = "box"
  /\ pl' = IF ~pl.template[1].boxEnabled THEN StageReturn(NULL)
           ELSE IF pl.image[1].readable THEN [pl EXCEPT !.pc = "toBuffer"]
           ELSE [pl EXCEPT !.pc = "catch", !.error = Some("metadata")]
  /\ UNCHANGED <<uploads, files, rq, templates, created, tc>>

(* applyBox: image.toBuffer(), then the box SVG with the image queued on it *)
ApplyBoxComposite ==
  /\ pl.pc = "toBuffer"
  /\ \/ pl' = StageReturn(Some(BoxLayout(pl.image[1].width, pl.image[1].height, pl.template[1])))
     \/ pl' = [pl EXCEPT !.pc = "catch", !.error = Some("toBuffer")]
  /\ UNCHANGED <<uploads, files, rq, templates, created, tc>>

(* applyWatermark: disabled or without text returns the image; otherwise *)
(* image.metadata(), the SVG text and image.composite                    *)
ApplyWatermark ==
  /\ pl.pc = "entered" /\ pl.stage = "watermark"
  /\ LET t == pl.template[1]
     IN pl' = IF ~t.watermarkEnabled \/ t.watermarkText = NULL \/ t.watermarkText = Some("")
              THEN StageReturn(NULL)
              ELSE IF pl.image[1].readable
              THEN StageReturn(Some(WatermarkOverlay(pl.image[1].width, pl.image[1].height, t)))
              ELSE [pl EXCEPT !.pc = "catch", !.error = Some("metadata")]
  /\ UNCHANGED <<uploads, files, rq, templates, created, tc>>

(* catch of either stage: the error is logged and the image is returned *)
StageCatch ==
  /\ pl.pc = "catch"
  /\ pl' = StageReturn(NULL)
  /\ UNCHANGED <<uploads, files, rq, templates, created, tc>>

InitStages ==
  /\ uploads = <<>>
  /\ files = {}
  /\ rq = [r \in Requests |-> IdleRequest]
  /\ templates = <<>>
  /\ created = 0
  /\ tc = [c \in Callers |-> IdleCaller]
  /\ pl = IdleStage

NextStages ==
  \/ StageCall
  \/ ApplyBoxMetadata
  \/ ApplyBoxComposite
  \/ ApplyWatermark
  \/ StageCatch

SpecStages == InitStages /\ [][NextStages]_vars

Init ==
  /\ uploads = <<>>
  /\ files = {}
  /\ rq = [r \in Requests |-> IdleRequest]
  /\ templates = Seeded
  /\ created = NumSeeded
  /\ tc = [c \in Callers |-> IdleCaller]
  /\ pl = IdlePipeline

Next ==
  \E r \in Requests :
    \/ Request(r)
    \/ CreateRecord(r)
    \/ GetTemplate(r)
    \/ SetProcessing(r)
    \/ ProcessImage(r)
    \/ SaveProcessedInfo(r)
    \/ CloudinaryUpload(r)
    \/ Cleanup(r)
    \/ FinalUpdate(r)
    \/ Respond(r)
    \/ CatchUpdate(r)
    \/ CatchCleanup(r)

Spec == Init /\ [][Next]_vars

(* =========================== TemplateService =========================== *)

TemplateIds == 1..MaxTemplates

(* the list built by TemplateController.createDefaultTemplates; columns that *)
(* are not given take the column defaults of the templates table            *)
DefaultTemplates ==
  << [name |-> "Social Media Square", isDefault |-> TRUE,  isActive |-> TRUE],
     [name |-> "YouTube Thumbnail",   isDefault |-> FALSE, isActive |-> TRUE],
     [name |-> "Profile Picture",     isDefault |-> FALSE, isActive |-> TRUE],
     [name |-> "Web Optimized",       isDefault |-> FALSE, isActive |-> TRUE],
     [name |-> "Print Ready",         isDefault |-> FALSE, isActive |-> TRUE] >>

(* names a client sends *)
ClientNames == {"Custom", "Social Media Square"}

(* bodies accepted by templateCreateSchema, defaults filled in *)
TemplateCreateInputs ==
  [name : ClientNames, isDefault : BOOLEAN, isActive : BOOLEAN]

(* bodies accepted by templateUpdateSchema: every column is optional *)
TemplateUpdateInputs ==
  {[isDefault |-> d] : d \in BOOLEAN}
    \cup {[isActive |-> a] : a \in BOOLEAN}
    \cup {[name |-> n] : n \in ClientNames}
    \cup {[isDefault |-> d, isActive |-> a] : d \in BOOLEAN, a \in BOOLEAN}

NameTaken(n, except) ==
  \E t \in DOMAIN templates : t # except /\ templates[t].name = n

(* prisma.template.create: unique name, fresh id *)
CanInsert(data) == ~NameTaken(data.name, 0) /\ created < MaxTemplates

DefaultsOf(T) == {t \in DOMAIN T : T[t].isDefault}

(* rows matched by findFirst({isDefault: true, isActive: true}) *)
DefaultCandidates(T) == {t \in DOMAIN T : T[t].isDefault /\ T[t].isActive}

Call(op, id) == [IdleCaller EXCEPT !.op = op, !.id = id]
Return(c, res) == [tc EXCEPT ![c].pc = "idle", ![c].result = res]

(* variant: the template is made default without being activated *)
SetDefaultDataNoActivate == [isDefault |-> TRUE]

SetDefaultData == [isDefault |-> TRUE, isActive |-> TRUE]

(* prisma.template.create behind the service's try/catch: the row is  *)
(* inserted, or the call rejects (name taken, store error) and nothing *)
(* is written                                                          *)
createTemplate(c, op, id, inputs) ==
  \/ \E data \in inputs :
       /\ CanInsert(data)
       /\ templates' = templates @@ ((created + 1) :> data)
       /\ created' = created + 1
       /\ tc' = [tc EXCEPT ![c] = [Call(op, id) EXCEPT !.result = "ok"]]
  \/ /\ tc' = [tc EXCEPT ![c] = [Call(op, id) EXCEPT !.result = "fail"]]
     /\ UNCHANGED <<templates, created>>

CreateTemplate(c) ==
  /\ tc[c].pc = "idle"
  /\ createTemplate(c, "createTemplate", 0, TemplateCreateInputs)
  /\ UNCHANGED <<uploads, files, rq, pl>>

(* variant: uploads made with the template are reset for reprocessing *)
UpdateTemplateCascades(c) ==
  /\ tc[c].pc = "idle"
  /\ \E id \in TemplateIds :
       \/ \E data \in TemplateUpdateInputs :
            /\ TemplateExists(id)
            /\ "name" \in DOMAIN data => ~NameTaken(data.name, id)
            /\ templates' = [templates EXCEPT ![id] = Patch(@, data)]
            /\ uploads' = [u \in DOMAIN uploads |->
                             IF uploads[u].templateId = Some(id)
                             THEN Patch(uploads[u], [processedWidth |-> NULL, processedHeight |-> NULL])
                             ELSE uploads[u]]
            /\ tc' = [tc EXCEPT ![c] = [Call("updateTemplate", id) EXCEPT !.result = "ok"]]
       \/ /\ tc' = [tc EXCEPT ![c] = [Call("updateTemplate", id) EXCEPT !.result = "fail"]]
          /\ UNCHANGED <<templates, uploads>>
  /\ UNCHANGED <<files, rq, created, pl>>

(* prisma.template.update: rejects on an unknown id, a taken name or a *)
(* store error                                                         *)
UpdateTemplate(c) ==
  /\ tc[c].pc = "idle"
  /\ \E id \in TemplateIds :
       \/ \E data \in TemplateUpdateInputs :
            /\ TemplateExists(id)
            /\ "name" \in DOMAIN data => ~NameTaken(data.name, id)
            /\ templates' = [templates EXCEPT ![id] = Patch(@, data)]
            /\ tc' = [tc EXCEPT ![c] = [Call("updateTemplate", id) EXCEPT !.result = "ok"]]
       \/ /\ tc' = [tc EXCEPT ![c] = [Call("updateTemplate", id) EXCEPT !.result = "fail"]]
          /\ UNCHANGED templates
  /\ UNCHANGED <<uploads, files, rq, created, pl>>

(* deleteTemplate, first await: count the uploads that use the template *)
DeleteCount(c) ==
  /\ tc[c].pc = "idle"
  /\ \E id \in TemplateIds :
       LET uploadsCount == Cardinality({u \in DOMAIN uploads : uploads[u].templateId = Some(id)})
       IN \/ /\ uploadsCount = 0
             /\ tc' = [tc EXCEPT ![c] = [Call("deleteTemplate", id) EXCEPT !.pc = "delete"]]
          \/ tc' = [tc EXCEPT ![c] = [Call("deleteTemplate", id) EXCEPT !.result = "fail"]]
  /\ UNCHANGED <<uploads, files, rq, templates, created, pl>>

(* deleteTemplate, second await: delete the row (uploads: ON DELETE SET NULL) *)
DeleteRow(c) ==
  /\ tc[c].pc = "delete"
  /\ \/ /\ TemplateExists(tc[c].id)
        /\ templates' = [t \in DOMAIN templates \ {tc[c].id} |-> templates[t]]
        /\ uploads' = [u \in DOMAIN uploads |->
                         IF uploads[u].templateId = Some(tc[c].id)
                         THEN [uploads[u] EXCEPT !.templateId = NULL]
                         ELSE uploads[u]]
        /\ tc' = Return(c, "ok")
     \/ /\ tc' = Return(c, "fail")
        /\ UNCHANGED <<templates, uploads>>
  /\ UNCHANGED <<files, rq, created, pl>>

(* setDefaultTemplate, first await: updateMany clears every default flag *)
SetDefaultClear(c) ==
  /\ tc[c].pc = "idle"
  /\ \E id \in TemplateIds :
       \/ /\ templates' = [t \in DOMAIN templates |->
                             IF templates[t].isDefault
                             THEN [templates[t] EXCEPT !.isDefault = FALSE]
                             ELSE templates[t]]
          /\ tc' = [tc EXCEPT ![c] = [Call("setDefaultTemplate", id) EXCEPT !.pc = "setDefault"]]
       \/ /\ tc' = [tc EXCEPT ![c] = [Call("setDefaultTemplate", id) EXCEPT !.result = "fail"]]
          /\ UNCHANGED templates
  /\ UNCHANGED <<uploads, files, rq, created, pl>>

(* setDefaultTemplate, second await: the named template becomes default *)
SetDefaultSet(c) ==
  /\ tc[c].pc = "setDefault"
  /\ \/ /\ TemplateExists(tc[c].id)
        /\ templates' = [templates EXCEPT ![tc[c].id] = Patch(@, SetDefaultData)]
        /\ tc' = Return(c, "ok")
     \/ /\ tc' = Return(c, "fail")
        /\ UNCHANGED templates
  /\ UNCHANGED <<uploads, files, rq, created, pl>>

(* getDefaultTemplate: findFirst over the default, active templates *)
GetDefaultTemplate(c) ==
  /\ tc[c].pc = "idle"
  /\ \/ \E t \in DefaultCandidates(templates) :
          tc' = [tc EXCEPT ![c] = [Call("getDefaultTemplate", t) EXCEPT !.result = "ok"]]
     \/ tc' = [tc EXCEPT ![c] = [Call("getDefaultTemplate", 0) EXCEPT !.result = "fail"]]
  /\ UNCHANGED <<uploads, files, rq, templates, created, pl>>

(* toggleTemplateStatus, first await: read the template *)
ToggleRead(c) ==
  /\ tc[c].pc = "idle"
  /\ \E id \in TemplateIds :
       \/ /\ TemplateExists(id)
          /\ tc' = [tc EXCEPT ![c] = [Call("toggleTemplateStatus", id) EXCEPT
                                        !.pc = "toggle", !.cur = templates[id].isActive]]
       \/ tc' = [tc EXCEPT ![c] = [Call("toggleTemplateStatus", id) EXCEPT !.result = "fail"]]
  /\ UNCHANGED <<uploads, files, rq, templates, created, pl>>

(* toggleTemplateStatus, second await: write the negation of the value read *)
ToggleWrite(c) ==
  /\ tc[c].pc = "toggle"
  /\ \/ /\ TemplateExists(tc[c].id)
        /\ templates' = [templates EXCEPT ![tc[c].id].isActive = ~tc[c].cur]
        /\ tc' = [Return(c, "ok") EXCEPT ![c].cur = FALSE]
     \/ /\ tc' = [Return(c, "fail") EXCEPT ![c].cur = FALSE]
        /\ UNCHANGED templates
  /\ UNCHANGED <<uploads, files, rq, created, pl>>

(* duplicateTemplate, first await: read the original *)
DuplicateRead(c) ==
  /\ tc[c].pc = "idle"
  /\ \E id \in TemplateIds :
       \/ \E newName \in ClientNames :
            /\ TemplateExists(id)
            /\ tc' = [tc EXCEPT ![c] = [Call("duplicateTemplate", id) EXCEPT
                                          !.pc = "duplicate", !.name = newName]]
       \/ tc' = [tc EXCEPT ![c] = [Call("duplicateTemplate", id) EXCEPT !.result = "fail"]]
  /\ UNCHANGED <<uploads, files, rq, templates, created, pl>>

(* duplicateTemplate, second await: create the copy, never default, active *)
DuplicateCreate(c) ==
  /\ tc[c].pc = "duplicate"
  /\ createTemplate(c, "duplicateTemplate", tc[c].id,
                    {[name |-> tc[c].name, isDefault |-> FALSE, isActive |-> TRUE]})
  /\ UNCHANGED <<uploads, files, rq, pl>>

(* createDefaultTemplates: the i-th createTemplate of the loop, which runs *)
(* over the first NumDefaults entries of the list; a failed create is     *)
(* skipped and the call answers 201 after the last one                    *)
createDefaultAt(c, i) ==
  /\ \/ /\ CanInsert(DefaultTemplates[i])
        /\ templates' = templates @@ ((created + 1) :> DefaultTemplates[i])
        /\ created' = created + 1
     \/ UNCHANGED <<templates, created>>
  /\ tc' = [tc EXCEPT ![c] =
              IF i = NumDefaults
              THEN [Call("createDefaultTemplates", 0) EXCEPT !.result = "ok"]
              ELSE [Call("createDefaultTemplates", 0) EXCEPT !.pc = "defaults", !.i = i + 1]]

CreateDefaultsFirst(c) ==
  /\ tc[c].pc = "idle"
  /\ createDefaultAt(c, 1)
  /\ UNCHANGED <<uploads, files, rq, pl>>

CreateDefaultsRest(c) ==
  /\ tc[c].pc = "defaults"
  /\ createDefaultAt(c, tc[c].i)
  /\ UNCHANGED <<uploads, files, rq, pl>>

(* the client of the one-call-at-a-time specification *)
SerialCallers == {CHOOSE c \in Callers : TRUE}

InitTemplates ==
  /\ uploads = <<>>
  /\ files = {}
  /\ rq = [r \in Requests |-> IdleRequest]
  /\ templates = <<>>
  /\ created = 0
  /\ tc = [c \in Callers |-> IdleCaller]
  /\ pl = IdlePipeline

(* template operations, each call running to its end before the next starts *)
NextTemplates ==
  \E c \in SerialCallers :
    \/ CreateTemplate(c)
    \/ UpdateTemplate(c)
    \/ DeleteCount(c)
    \/ DeleteRow(c)
    \/ SetDefaultClear(c)
    \/ SetDefaultSet(c)
    \/ GetDefaultTemplate(c)
    \/ ToggleRead(c)
    \/ ToggleWrite(c)
    \/ DuplicateRead(c)
    \/ DuplicateCreate(c)
    \/ CreateDefaultsFirst(c)
    \/ CreateDefaultsRest(c)

SpecTemplates == InitTemplates /\ [][NextTemplates]_vars

InitSetDefault ==
  /\ uploads = <<>>
  /\ files = {}
  /\ rq = [r \in Requests |-> IdleRequest]
  /\ templates = Seeded
  /\ created = NumSeeded
  /\ tc = [c \in Callers |-> IdleCaller]
  /\ pl = IdlePipeline

(* setDefaultTemplate calls whose awaits interleave *)
NextSetDefault ==
  \E c \in Callers :
    \/ SetDefaultClear(c)
    \/ SetDefaultSet(c)

SpecSetDefault == InitSetDefault /\ [][NextSetDefault]_vars

(* one upload request running while a client updates and deletes templates *)
LinkedRequests == {CHOOSE r \in Requests : TRUE}

NextLinked ==
  \/ \E r \in LinkedRequests :
       \/ Request(r)
       \/ CreateRecord(r)
       \/ GetTemplate(r)
       \/ SetProcessing(r)
       \/ ProcessImage(r)
       \/ SaveProcessedInfo(r)
       \/ CloudinaryUpload(r)
       \/ Cleanup(r)
       \/ FinalUpdate(r)
       \/ Respond(r)
       \/ CatchUpdate(r)
       \/ CatchCleanup(r)
  \/ \E c \in SerialCallers :
       \/ UpdateTemplate(c)
       \/ DeleteCount(c)
       \/ DeleteRow(c)

(* the store holds the first template of the seed list and no upload yet *)
InitLinked ==
  /\ uploads = <<>>
  /\ files = {}
  /\ rq = [r \in Requests |-> IdleRequest]
  /\ templates = [t \in {1} |-> SeedTemplates[t]]
  /\ created = 1
  /\ tc = [c \in Callers |-> IdleCaller]
  /\ pl = IdlePipeline

SpecLinked == InitLinked /\ [][NextLinked]_vars

(* each client sends at most one request, setDefaultTemplate or       *)
(* toggleTemplateStatus, and their awaits interleave; the store holds *)
(* one template, so an id of no template can be named                *)
SetDefaultOnce(c) == tc[c].op = "none" /\ SetDefaultClear(c)

ToggleOnce(c) == tc[c].op = "none" /\ ToggleRead(c)

NextOneCall ==
  \E c \in Callers :
    \/ SetDefaultOnce(c)
    \/ SetDefaultSet(c)
    \/ ToggleOnce(c)
    \/ ToggleWrite(c)

SpecOneCall == InitLinked /\ [][NextOneCall]_vars

(* ================= template routes: validate, then the controller ================= *)

(* request bodies: a field is absent (NULL) or carries a value *)
BodyNames == {NULL, Some("X"), Some("Custom"), Some("Social Media Square")}
BodySizes == {Some(0), Some(100), Some(8001)}
BodyFlags == {NULL, Some(TRUE)}

Bodies ==
  [ name : BodyNames, width : BodySizes, height : {NULL, Some(100)},
    isDefault : BodyFlags, isActive : {NULL, Some(FALSE)} ]

(* length of the names that are sent *)
NameLength(n) ==
  CASE n = "X" -> 1
    [] n = "Custom" -> 6
    [] n = "Social Media Square" -> 19

(* Joi.string().min(2).max(100) *)
NameOk(n) == NameLength(n) >= 2 /\ NameLength(n) <= 100

(* Joi.number().integer().min(1).max(8000) *)
SizeOk(n) == n >= 1 /\ n <= 8000

(* templateCreateSchema: name, width and height are required *)
templateCreateSchema(b) ==
  /\ b.name # NULL /\ NameOk(b.name[1])
  /\ b.width # NULL /\ SizeOk(b.width[1])
  /\ b.height # NULL /\ SizeOk(b.height[1])

(* templateUpdateSchema: every field is optional *)
templateUpdateSchema(b) ==
  /\ b.name # NULL => NameOk(b.name[1])
  /\ b.width # NULL => SizeOk(b.width[1])
  /\ b.height # NULL => SizeOk(b.height[1])

(* the validated value of a create body: defaults filled in *)
CreateValue(b) ==
  [ name |-> IF b.name = NULL THEN "" ELSE b.name[1],
    isDefault |-> IF b.isDefault = NULL THEN FALSE ELSE b.isDefault[1],
    isActive |-> IF b.isActive = NULL THEN TRUE ELSE b.isActive[1] ]

(* the validated value of an update body: the columns that were sent *)
UpdateValue(b) ==
  [f \in {g \in {"name", "isDefault", "isActive"} : b[g] # NULL} |-> b[f][1]]

IdleClient ==
  [pc |-> "idle", op |-> "none", id |-> 0, body |-> NULL, value |-> NULL, response |-> 0]

(* the router hands the request to the route's first middleware *)
Route(c, op, id, b) ==
  [IdleClient EXCEPT !.pc = "validate", !.op = op, !.id = id, !.body = Some(b)]

(* POST /api/templates *)
PostTemplate(c) ==
  /\ tc[c].pc = "idle"
  /\ \E b \in Bodies : tc' = [tc EXCEPT ![c] = Route(c, "POST", 0, b)]
  /\ UNCHANGED <<uploads, files, rq, templates, created, pl>>

(* PUT /api/templates/:id *)
PutTemplate(c) ==
  /\ tc[c].pc = "idle"
  /\ \E id \in TemplateIds, b \in Bodies : tc' = [tc EXCEPT ![c] = Route(c, "PUT", id, b)]
  /\ UNCHANGED <<uploads, files, rq, templates, created, pl>>

(* variant: the 400 answer is not returned from, next() is called anyway *)
validateNoReturn(c) ==
  /\ tc[c].pc = "validate"
  /\ LET b == tc[c].body[1]
         ok == IF tc[c].op = "POST" THEN templateCreateSchema(b) ELSE templateUpdateSchema(b)
         value == IF tc[c].op = "POST" THEN CreateValue(b) ELSE UpdateValue(b)
     IN tc' = [tc EXCEPT ![c].pc = "controller", ![c].value = Some(value),
                         ![c].response = IF ok THEN 0 ELSE 400]
  /\ UNCHANGED <<uploads, files, rq, templates, created, pl>>

(* validate(schema, 'body'): 400 on a schema error, otherwise req.body is *)
(* replaced by the validated value and the controller is entered          *)
validate(c) ==
  /\ tc[c].pc = "validate"
  /\ LET b == tc[c].body[1]
         ok == IF tc[c].op = "POST" THEN templateCreateSchema(b) ELSE templateUpdateSchema(b)
         value == IF tc[c].op = "POST" THEN CreateValue(b) ELSE UpdateValue(b)
     IN tc' = IF ok
              THEN [tc EXCEPT ![c].pc = "controller", ![c].value = Some(value)]
              ELSE [tc EXCEPT ![c].pc = "idle", ![c].body = NULL, ![c].response = 400]
  /\ UNCHANGED <<uploads, files, rq, templates, created, pl>>

(* TemplateController.createTemplate: 201, or 400 when the service fails *)
PostTemplateController(c) ==
  /\ tc[c].pc = "controller" /\ tc[c].op = "POST"
  /\ \/ /\ CanInsert(tc[c].value[1])
        /\ templates' = templates @@ ((created + 1) :> tc[c].value[1])
        /\ created' = created + 1
        /\ tc' = [tc EXCEPT ![c].pc = "idle", ![c].body = NULL, ![c].response = 201]
     \/ /\ tc' = [tc EXCEPT ![c].pc = "idle", ![c].body = NULL, ![c].response = 400]
        /\ UNCHANGED <<templates, created>>
  /\ UNCHANGED <<uploads, files, rq, pl>>

(* TemplateController.updateTemplate: 200, or 400 when the service fails *)
PutTemplateController(c) ==
  /\ tc[c].pc = "controller" /\ tc[c].op = "PUT"
  /\ \/ /\ TemplateExists(tc[c].id)
        /\ "name" \in DOMAIN tc[c].value[1] => ~NameTaken(tc[c].value[1].name, tc[c].id)
        /\ templates' = [templates EXCEPT ![tc[c].id] = Patch(@, tc[c].value[1])]
        /\ tc' = [tc EXCEPT ![c].pc = "idle", ![c].body = NULL, ![c].response = 200]
     \/ /\ tc' = [tc EXCEPT ![c].pc = "idle", ![c].body = NULL, ![c].response = 400]
        /\ UNCHANGED templates
  /\ UNCHANGED <<uploads, files, rq, created, pl>>

InitRoutes ==
  /\ uploads = <<>>
  /\ files = {}
  /\ rq = [r \in Requests |-> IdleRequest]
  /\ templates = <<>>
  /\ created = 0
  /\ tc = [c \in Callers |-> IdleClient]
  /\ pl = IdlePipeline

(* create and update requests of one client *)
NextRoutes ==
  \E c \in SerialCallers :
    \/ PostTemplate(c)
    \/ PutTemplate(c)
    \/ validate(c)
    \/ PostTemplateController(c)
    \/ PutTemplateController(c)

SpecRoutes == InitRoutes /\ [][NextRoutes]_vars

(* ==================== POST /api/upload/single, the route ==================== *)

(* the file part of a request: absent, or of some type and within or over *)
(* the size limit                                                         *)
UploadFiles ==
  {NULL} \cup {Some(f) : f \in [mimetype : MimeTypes \cup {"text/plain"}, oversize : BOOLEAN]}

(* the text fields of a request *)
UploadBodies == [templateId : TemplateIdInputs, quality : {NULL, Some("auto"), Some("high")}]

AllowedType(m) == m \in MimeTypes

fileUploadWithTemplateSchema(b) ==
  b.quality \in {NULL, Some("auto"), Some("best"), Some("good"), Some("eco"), Some("low")}

(* multer: a file of an allowed type within the size limit is written to the *)
(* uploads directory; a refused file leaves nothing behind and ends with 400 *)
UploadSingleMulter(r) ==
  /\ rq[r].pc = "idle"
  /\ \E f \in UploadFiles, b \in UploadBodies :
       IF f = NULL
       THEN /\ rq' = [rq EXCEPT ![r] = [IdleRequest EXCEPT !.pc = "validateFile"] @@ [body |-> b]]
            /\ UNCHANGED files
       ELSE IF AllowedType(f[1].mimetype) /\ ~f[1].oversize
       THEN /\ rq' = [rq EXCEPT ![r] = [IdleRequest EXCEPT !.pc = "validateFile", !.file = TRUE,
                                                          !.mimetype = f[1].mimetype]
                                         @@ [body |-> b]]
            /\ files' = files \cup {StagingPath(r)}
       ELSE /\ rq' = [rq EXCEPT ![r] = Finish(r, 400)]
            /\ UNCHANGED files
  /\ UNCHANGED <<uploads, templates, created, tc, pl>>

(* validateFileUpload: 400 without a file; size and type were checked by multer *)
ValidateFileUpload(r) ==
  /\ rq[r].pc = "validateFile"
  /\ rq' = IF ~rq[r].file \/ ~AllowedType(rq[r].mimetype)
           THEN [rq EXCEPT ![r] = Finish(r, 400)]
           ELSE [rq EXCEPT ![r].pc = "validateBody"]
  /\ UNCHANGED <<uploads, files, templates, created, tc, pl>>

(* validate(fileUploadWithTemplateSchema): 400 on an invalid body, otherwise *)
(* the controller is entered                                                 *)
ValidateUploadBody(r) ==
  /\ rq[r].pc = "validateBody"
  /\ rq' = IF fileUploadWithTemplateSchema(rq[r].body)
           THEN [rq EXCEPT ![r] = [IdleRequest EXCEPT !.pc = "create", !.file = rq[r].file,
                                                      !.mimetype = rq[r].mimetype,
                                                      !.templateId = rq[r].body.templateId]]
           ELSE [rq EXCEPT ![r] = Finish(r, 400)]
  /\ UNCHANGED <<uploads, files, templates, created, tc, pl>>

NextUploadRoute ==
  \E r \in LinkedRequests :
    \/ UploadSingleMulter(r)
    \/ ValidateFileUpload(r)
    \/ ValidateUploadBody(r)
    \/ CreateRecord(r)
    \/ GetTemplate(r)
    \/ SetProcessing(r)
    \/ ProcessImage(r)
    \/ SaveProcessedInfo(r)
    \/ CloudinaryUpload(r)
    \/ Cleanup(r)
    \/ FinalUpdate(r)
    \/ Respond(r)
    \/ CatchUpdate(r)
    \/ CatchCleanup(r)

SpecUploadRoute == Init /\ [][NextUploadRoute]_vars

(* ======================= upload lifecycle properties ======================= *)

Created == DOMAIN uploads

(* C1 (as stated): a pending record only ever moves to processing or failed *)
C1_PendingOnlyToProcessingOrFailed ==
  [][\A r \in Created :
       uploads[r].status = "pending"
         => uploads'[r].status \in {"pending", "processing", "failed"}]_vars

(* C1 (amended): a pending record moves to processing or failed, or straight  *)
(* to completed when no pipeline runs for it (no template resolved, or the    *)
(* file is not an image); a templated image never skips processing            *)
C1_PendingTransitions ==
  [][\A r \in Created :
       uploads[r].status = "pending"
         => /\ uploads'[r].status \in {"pending", "processing", "failed", "completed"}
            /\ uploads'[r].status = "completed"
                 => (rq[r].template = NULL \/ ~IsImage(rq[r].mimetype))]_vars

C1_Witness ==
  \E r \in Created :
    /\ rq[r].pc = "respond"
    /\ uploads[r].status = "completed"
    /\ rq[r].template = NULL
    /\ rq[r].processedImagePath = NULL

(* C2: once a record is completed or failed its status never changes again *)
C2_TerminalStatuses ==
  [][\A r \in Created :
       uploads[r].status \in {"completed", "failed"}
         => uploads'[r].status = uploads[r].status]_vars

C2_Witness ==
  \E r \in Created : uploads[r].status = "completed" /\ rq[r].pc = "done"

(* C3: the storage identifier and URL are non-null only on completed records *)
C3_StorageOnlyWhenCompleted ==
  \A r \in Created :
    (uploads[r].cloudinaryId # NULL \/ uploads[r].cloudinaryUrl # NULL)
      => uploads[r].status = "completed"

C3_Witness ==
  \E r \in Created :
    /\ uploads[r].status = "failed"
    /\ rq[r].cloudinaryResult # NULL
    /\ rq[r].cloudinaryResult[1].success
    /\ uploads[r].cloudinaryId = NULL

(* C4 (as stated): a completed record has processed dimensions, storage      *)
(* identifier and URL, and the four are always null together or set together *)
C4_AllFourTogether ==
  \A r \in Created :
    LET u == uploads[r]
        F == {u.processedWidth, u.processedHeight, u.cloudinaryId, u.cloudinaryUrl}
    IN /\ u.status = "completed" => NULL \notin F
       /\ F = {NULL} \/ NULL \notin F

(* C4 (amended): identifier and URL are set together, exactly on completed   *)
(* records; processed width and height are set together, by the earlier      *)
(* processed-info update; a completed record that went through the pipeline  *)
(* has all four                                                              *)
C4_PairsTogether ==
  \A r \in Created :
    LET u == uploads[r]
    IN /\ u.status = "completed" => (u.cloudinaryId # NULL /\ u.cloudinaryUrl # NULL)
       /\ (u.cloudinaryId = NULL) <=> (u.cloudinaryUrl = NULL)
       /\ (u.processedWidth = NULL) <=> (u.processedHeight = NULL)
       /\ (u.status = "completed" /\ u.processedPath # NULL)
            => (u.processedWidth # NULL /\ u.processedHeight # NULL)

C4_Witness ==
  \E r \in Created :
    LET u == uploads[r]
    IN /\ u.status = "completed"
       /\ u.processedWidth # NULL /\ u.processedHeight # NULL
       /\ u.cloudinaryId # NULL /\ u.cloudinaryUrl # NULL

(* C5: the error detail is present exactly on failed records *)
C5_ErrorIffFailed ==
  \A r \in Created : (uploads[r].errorMessage # NULL) <=> (uploads[r].status = "failed")

C5_Witness ==
  \E r \in Created : uploads[r].status = "failed" /\ uploads[r].errorMessage # NULL

(* C6: when a request that created a record has ended, the record is *)
(* completed or failed                                               *)
C6_EndedRequestIsTerminal ==
  \A r \in Created :
    rq[r].pc = "done" => uploads[r].status \in {"completed", "failed"}

C11_PipelineFailureEndsFailed ==
  \A r \in Requests :
    (rq[r].pc = "catchCleanup" /\ rq[r].error = Some("Image processing failed"))
      => /\ rq[r].cloudinaryResult = NULL
         /\ uploads[r].status = "failed"

(* C12: when the storage collaborator reported failure after the pipeline  *)
(* succeeded, then once the catch block has issued its update the record   *)
(* is failed and neither the staging nor the processed file is left        *)
C12_StorageFailureEndsFailed ==
  \A r \in Requests :
    ( /\ rq[r].pc = "catchCleanup"
      /\ rq[r].error = Some("Cloudinary upload failed")
      /\ rq[r].imageMetadata # NULL )
      => /\ uploads[r].status = "failed"
         /\ StagingPath(r) \notin files
         /\ ProcessedPath(r) \notin files

(* C13: a record becomes processing only for a request with a resolved     *)
(* template; processImage is entered only from the update that has just    *)
(* set the record to processing, and is invoked on a processing record     *)
C13_ProcessingBeforePipeline ==
  [][\A r \in Requests :
       /\ (r \in DOMAIN uploads' /\ uploads'[r].status = "processing"
             /\ (r \notin DOMAIN uploads \/ uploads[r].status # "processing"))
            => (rq[r].template # NULL /\ rq[r].pc = "setProcessing")
       /\ (rq'[r].pc = "process" /\ rq[r].pc # "process")
            => /\ rq[r].pc = "setProcessing"
               /\ uploads[r].status # "processing"
               /\ uploads'[r].status = "processing"
       /\ (rq[r].pc = "process" /\ rq'[r].pc # "process")
            => /\ uploads[r].status = "processing"
               /\ rq[r].template # NULL]_vars

C13_Witness ==
  \E r \in Created :
    /\ rq[r].pc = "saveInfo"
    /\ rq[r].template # NULL
    /\ uploads[r].status = "processing"

(* C14: a processing record only ever moves to completed or failed *)
C14_ProcessingTransitions ==
  [][\A r \in Created :
       uploads[r].status = "processing"
         => uploads'[r].status \in {"processing", "completed", "failed"}]_vars

C14_Witness ==
  \E r \in Created :
    /\ rq[r].pc = "catchCleanup"
    /\ rq[r].processedImagePath # NULL
    /\ uploads[r].status = "failed"

(* C17: for an upload without templateId the pipeline is never entered, the *)
(* storage collaborator is given the staging file, and processedPath and    *)
(* the four dimension columns stay null                                     *)
C17_PassThrough ==
  \A r \in Created :
    uploads[r].templateId = NULL
      => /\ rq[r].pc \notin {"getTemplate", "setProcessing", "process", "saveInfo"}
         /\ rq[r].processedImagePath = NULL /\ rq[r].imageMetadata = NULL
         /\ rq[r].cloudinaryResult # NULL => rq[r].cloudinaryResult[1].path = StagingPath(r)
         /\ uploads[r].processedPath = NULL
         /\ uploads[r].originalWidth = NULL /\ uploads[r].originalHeight = NULL
         /\ uploads[r].processedWidth = NULL /\ uploads[r].processedHeight = NULL

C17_Witness ==
  \E r \in Created :
    /\ uploads[r].templateId = NULL
    /\ IsImage(rq[r].mimetype)
    /\ rq[r].pc = "finalUpdate"
    /\ rq[r].cloudinaryResult[1].path = StagingPath(r)
    /\ uploads[r].processedPath = NULL

(* C24: a step of one request leaves every other request's record, staging *)
(* file and processed file as they were, and the files a request works on  *)
(* are there when it reaches the step that reads them                       *)
C24_RequestsIsolated ==
  [][\A r \in Requests :
       /\ rq'[r] = rq[r]
            => /\ (r \in DOMAIN uploads') <=> (r \in DOMAIN uploads)
               /\ r \in DOMAIN uploads => uploads'[r] = uploads[r]
               /\ (StagingPath(r) \in files') <=> (StagingPath(r) \in files)
               /\ (ProcessedPath(r) \in files') <=> (ProcessedPath(r) \in files)
       /\ rq[r].pc \in {"process", "upload", "cleanup"} => StagingPath(r) \in files
       /\ rq[r].pc \in {"saveInfo", "upload", "cleanup"} /\ rq[r].imageMetadata # NULL
            => ProcessedPath(r) \in files]_vars

C24_Witness ==
  \E r1, r2 \in Created :
    /\ r1 # r2
    /\ rq[r1].pc = "cleanup" /\ rq[r1].imageMetadata # NULL
    /\ rq[r2].pc = "upload" /\ rq[r2].imageMetadata # NULL
    /\ {StagingPath(r1), ProcessedPath(r1), StagingPath(r2), ProcessedPath(r2)} \subseteq files

(* C27: when the response of a request is sent, its processed file is gone *)
C27_ProcessedFileDeleted ==
  \A r \in Requests :
    rq[r].pc = "done" => ProcessedPath(r) \notin files

(* C26: when a response has been sent for a request whose file multer wrote, *)
(* whichever middleware or handler sent it, the staging file is gone          *)
C26_StagingFileDeletedOnReject ==
  \A r \in Requests :
    (rq[r].file /\ rq[r].response # 0) => StagingPath(r) \notin files

(* ============================ pipeline properties ============================ *)

(* C15: when processImage has written its output, the stages Geometry, Tone, *)
(* Frame, Watermark and Encode have run, in that order                       *)
C15_FiveStagesInOrder ==
  pl.wrote => pl.stages = PipelineStages

(* C16: no exception leaves processImage; whatever the input, the call ends *)
(* with a result whose success flag is true (with the dimensions) or false  *)
C16_NeverThrows ==
  /\ ~pl.thrown
  /\ pl.pc = "returned"
       => /\ pl.result # NULL
          /\ pl.result[1].success \in BOOLEAN
          /\ pl.error # NULL <=> ~pl.result[1].success

C16_Witness ==
  /\ pl.pc = "returned"
  /\ pl.image[1].decodable
  /\ HasCrop(pl.template[1]) /\ ~ExtractFits(pl.template[1], pl.metadata[1])
  /\ ~pl.result[1].success

(* C21: a successful run on a template whose fit is cover or fill reports the *)
(* template's width and height as the processed size                         *)
C21_ExactBox ==
  (pl.pc = "returned" /\ pl.result[1].success /\ pl.template[1].fit \in {"cover", "fill"})
    => /\ pl.result[1].processedWidth = pl.template[1].width
       /\ pl.result[1].processedHeight = pl.template[1].height

C21_Witness ==
  /\ pl.pc = "returned" /\ pl.result[1].success
  /\ pl.template[1].fit = "cover"
  /\ pl.image[1].width = 2 /\ pl.image[1].height = 1
  /\ pl.template[1].width = 1 /\ pl.template[1].height = 1
  /\ pl.result[1].processedWidth = 1 /\ pl.result[1].processedHeight = 1

(* C22: the box canvas is the image size plus twice padding and border plus *)
(* twice the shadow margin, the margin being max(|offsetX|, |offsetY|) +    *)
(* blur with a shadow and 0 without, and the image is placed at margin +    *)
(* border + padding on both axes                                            *)
C22_BoxCanvas ==
  (pl.pc = "returned" /\ pl.stage = "box" /\ pl.out # NULL)
    => LET t == pl.template[1]
           ax == IF t.boxShadowOffsetX < 0 THEN -t.boxShadowOffsetX ELSE t.boxShadowOffsetX
           ay == IF t.boxShadowOffsetY < 0 THEN -t.boxShadowOffsetY ELSE t.boxShadowOffsetY
           shadowMargin == IF t.boxShadowEnabled
                           THEN (IF ax >= ay THEN ax ELSE ay) + t.boxShadowBlur
                           ELSE 0
           grow == 2 * (t.boxPadding + t.boxBorderWidth) + 2 * shadowMargin
       IN /\ pl.out[1].canvasWidth = pl.image[1].width + grow
          /\ pl.out[1].canvasHeight = pl.image[1].height + grow
          /\ pl.out[1].imageLeft = shadowMargin + t.boxBorderWidth + t.boxPadding
          /\ pl.out[1].imageTop = shadowMargin + t.boxBorderWidth + t.boxPadding

C22_Witness ==
  /\ pl.pc = "returned" /\ pl.stage = "box" /\ pl.out # NULL
  /\ pl.image[1].width = 500 /\ pl.image[1].height = 500
  /\ pl.template[1].boxPadding = 20 /\ pl.template[1].boxBorderWidth = 0
  /\ pl.template[1].boxShadowEnabled /\ pl.template[1].boxShadowBlur = 10
  /\ pl.template[1].boxShadowOffsetX = 5 /\ pl.template[1].boxShadowOffsetY = 5
  /\ pl.out[1].canvasWidth = 570 /\ pl.out[1].canvasHeight = 570

(* C23: when rendering the box or the watermark fails, by an exception in *)
(* the stage or because the overlay it built cannot be rendered, the      *)
(* stage has returned the image it was given, without decoration          *)
C23_DecorationDegrades ==
  ( /\ pl.pc = "returned" /\ pl.stage \in {"box", "watermark"}
    /\ \/ pl.error # NULL
       \/ /\ pl.out # NULL /\ pl.out[1].kind = "watermark"
          /\ ~XmlWellFormed(pl.out[1].text) )
    => pl.out = NULL

(* C25: the overlay's fill-opacity is the configured watermarkOpacity, and *)
(* one half exactly when none is configured                                *)
C25_ConfiguredOpacity ==
  (pl.pc = "returned" /\ pl.stage = "watermark" /\ pl.out # NULL)
    => pl.out[1].fillOpacity =
         IF pl.template[1].watermarkOpacity # NULL THEN pl.template[1].watermarkOpacity[1] ELSE 5

(* ======================= template store properties ======================= *)

(* C8: at most one template is default *)
C8_AtMostOneDefault == Cardinality(DefaultsOf(templates)) <= 1

(* C9: when two setDefaultTemplate calls on distinct templates have both *)
(* returned success, exactly one template is default                     *)
C9_ConcurrentSetDefault ==
  \A c1, c2 \in Callers :
    ( /\ c1 # c2
      /\ tc[c1].pc = "idle" /\ tc[c1].op = "setDefaultTemplate" /\ tc[c1].result = "ok"
      /\ tc[c2].pc = "idle" /\ tc[c2].op = "setDefaultTemplate" /\ tc[c2].result = "ok"
      /\ tc[c1].id # tc[c2].id )
    => Cardinality(DefaultsOf(templates)) = 1

(* C10: when setDefaultTemplate(id) returns success and no other template  *)
(* call ran meanwhile, id is default and active, no other template is      *)
(* default, and getDefaultTemplate can only return id                      *)
C10_SetDefaultResult ==
  [][\A c \in Callers :
       (tc[c].pc = "setDefault" /\ tc'[c].pc = "idle" /\ tc'[c].result = "ok")
         => /\ templates'[tc[c].id].isDefault
            /\ templates'[tc[c].id].isActive
            /\ DefaultsOf(templates') = {tc[c].id}
            /\ DefaultCandidates(templates') = {tc[c].id}]_vars

C10_Witness ==
  \E c \in Callers :
    /\ tc[c].pc = "idle" /\ tc[c].op = "setDefaultTemplate" /\ tc[c].result = "ok"
    /\ Cardinality(DOMAIN templates) >= 2
    /\ DefaultsOf(templates) = {tc[c].id}
    /\ DefaultCandidates(templates) = {tc[c].id}

(* C28: when the only call made so far is a setDefaultTemplate that returned *)
(* failure, the default templates are those of before the call              *)
C28_FailedSetDefaultKeepsDefaults ==
  \A c \in Callers :
    ( /\ tc[c].pc = "idle" /\ tc[c].op = "setDefaultTemplate" /\ tc[c].result = "fail"
      /\ \A d \in Callers \ {c} : tc[d].op = "none" )
      => DefaultsOf(templates) = DefaultsOf([t \in {1} |-> SeedTemplates[t]])

(* C29: a default template is active *)
C29_DefaultIsActive ==
  \A t \in DOMAIN templates : templates[t].isDefault => templates[t].isActive

(* C30: when every call made was a toggleTemplateStatus and all have returned, *)
(* each template's isActive is its initial value negated once per successful  *)
(* toggle of it                                                               *)
C30_ToggleAtomic ==
  (\A c \in Callers : tc[c].pc = "idle" /\ tc[c].op \in {"none", "toggleTemplateStatus"})
    => \A t \in DOMAIN templates :
         LET n == Cardinality({c \in Callers : /\ tc[c].op = "toggleTemplateStatus"
                                               /\ tc[c].id = t /\ tc[c].result = "ok"})
         IN templates[t].isActive = (IF n % 2 = 0 THEN SeedTemplates[t].isActive
                                     ELSE ~SeedTemplates[t].isActive)

(* ================== properties of templates that uploads use ================== *)

(* C18: an updateTemplate call changes no upload record *)
C18_UpdateLeavesUploads ==
  [][\A c \in Callers :
       ( /\ tc[c].pc = "idle"
         /\ tc'[c].op = "updateTemplate"
         /\ (tc'[c] # tc[c] \/ templates' # templates) )
       => uploads' = uploads]_vars

C18_Witness ==
  \E c \in Callers, u \in DOMAIN uploads :
    /\ tc[c].op = "updateTemplate" /\ tc[c].result = "ok"
    /\ templates[tc[c].id].name = "Custom"
    /\ uploads[u].templateId = Some(tc[c].id)
    /\ uploads[u].status = "completed"
    /\ uploads[u].processedWidth # NULL /\ uploads[u].cloudinaryId # NULL

(* C19: the delete of deleteTemplate(id) removes the template only when no *)
(* upload has templateId = id; when an upload has it, the call fails and   *)
(* the template and the uploads are left as they were                      *)
C19_DeleteOnlyUnused ==
  [][\A c \in Callers :
       (tc[c].pc = "delete" /\ tc'[c].pc = "idle")
         => LET id == tc[c].id
                refs == {u \in DOMAIN uploads : uploads[u].templateId = Some(id)}
            IN /\ (id \in DOMAIN templates /\ id \notin DOMAIN templates') => refs = {}
               /\ refs # {} => /\ tc'[c].result = "fail"
                               /\ templates' = templates
                               /\ uploads' = uploads]_vars

(* ============================ route properties ============================ *)

(* the schema that guards the route of a request *)
SchemaAccepts(op, b) ==
  IF op = "POST" THEN templateCreateSchema(b) ELSE templateUpdateSchema(b)

(* C20: a create or update request whose body the schema rejects is answered *)
(* 400 by the middleware without entering the controller, and the templates  *)
(* table is left as it was                                                   *)
C20_InvalidBodyRejected ==
  [][\A c \in Callers :
       /\ (tc[c].pc = "validate" /\ ~SchemaAccepts(tc[c].op, tc[c].body[1]))
            => /\ tc'[c].pc = "idle"
               /\ tc'[c].response = 400
               /\ templates' = templates
               /\ created' = created
       /\ tc'[c].pc = "controller" => SchemaAccepts(tc'[c].op, tc'[c].body[1])]_vars

C20_Witness ==
  \E c \in Callers :
    /\ tc[c].pc = "idle" /\ tc[c].op = "PUT" /\ tc[c].response = 400
    /\ tc[c].value = NULL
    /\ TemplateExists(tc[c].id)

====
